---- MODULE Spec2Model ----
(***************************************************************************)
(* A model of the security.txt parser (package security): Parser.Parse,    *)
(* the single-pass line parser, and Parser.ParseFromURL, the resolver that *)
(* tries the well-known locations of a host.                               *)
(*                                                                         *)
(* Go strings are TLA+ strings; TLC evaluates Len, \o and SubSeq on them.  *)
(***************************************************************************)
EXTENDS Integers, Sequences, FiniteSets, TLC

(***************************************************************************)
(* Bounds of the model.                                                    *)
(***************************************************************************)
\* tokens one stream delivers to Parse
MaxLines == 3

\* tokens of a stream that repeats Encryption, Hiring and Policy
MaxOverwriteLines == 4

(***************************************************************************)
(* package strings, as Parse uses it.                                      *)
(***************************************************************************)
Ch(s, i) == SubSeq(s, i, i)

\* the white space of strings.TrimSpace that a scanned line can hold
\* ("\n" ends the line and never reaches Parse)
IsSpace(c) == c \in {" ", "\t", "\r"}

HasPrefix(s, p) == Len(s) >= Len(p) /\ SubSeq(s, 1, Len(p)) = p

HasSuffix(s, p) == Len(s) >= Len(p) /\ SubSeq(s, Len(s) - Len(p) + 1, Len(s)) = p

TrimPrefix(s, p) == IF HasPrefix(s, p) THEN SubSeq(s, Len(p) + 1, Len(s)) ELSE s

TrimSuffix(s, p) == IF HasSuffix(s, p) THEN SubSeq(s, 1, Len(s) - Len(p)) ELSE s

RECURSIVE TrimLeftSpace(_)
TrimLeftSpace(s) ==
    IF Len(s) > 0 /\ IsSpace(Ch(s, 1))
    THEN TrimLeftSpace(SubSeq(s, 2, Len(s)))
    ELSE s

RECURSIVE TrimRightSpace(_)
TrimRightSpace(s) ==
    IF Len(s) > 0 /\ IsSpace(Ch(s, Len(s)))
    THEN TrimRightSpace(SubSeq(s, 1, Len(s) - 1))
    ELSE s

TrimSpace(s) == TrimRightSpace(TrimLeftSpace(s))

RECURSIVE TrimLeft(_, _)
TrimLeft(s, c) ==
    IF Len(s) > 0 /\ Ch(s, 1) = c
    THEN TrimLeft(SubSeq(s, 2, Len(s)), c)
    ELSE s

RECURSIVE TrimRight(_, _)
TrimRight(s, c) ==
    IF Len(s) > 0 /\ Ch(s, Len(s)) = c
    THEN TrimRight(SubSeq(s, 1, Len(s) - 1), c)
    ELSE s

\* strings.Trim(s, " "): the cutset is the single character c
Trim(s, c) == TrimRight(TrimLeft(s, c), c)

\* the position of the first c in s, 0 when there is none
Index(s, c) ==
    IF \E i \in 1..Len(s) : Ch(s, i) = c
    THEN CHOOSE i \in 1..Len(s) :
            /\ Ch(s, i) = c
            /\ \A j \in 1..(i - 1) : Ch(s, j) # c
    ELSE 0

\* a Split that drops empty pieces (strings.FieldsFunc-like)
RECURSIVE SplitNonEmpty(_, _)
SplitNonEmpty(s, sep) ==
    LET i == Index(s, sep)
        head == IF i = 0 THEN s ELSE SubSeq(s, 1, i - 1)
        rest == IF i = 0 THEN << >> ELSE SplitNonEmpty(SubSeq(s, i + 1, Len(s)), sep)
    IN  IF head = "" THEN rest ELSE <<head>> \o rest

\* strings.Split(s, sep), sep one character: always at least one piece
RECURSIVE Split(_, _)
Split(s, sep) ==
    LET i == Index(s, sep)
    IN  IF i = 0
        THEN <<s>>
        ELSE <<SubSeq(s, 1, i - 1)>> \o Split(SubSeq(s, i + 1, Len(s)), sep)

(***************************************************************************)
(* package time, as Parse uses it: a time.Time is an instant, counted from *)
(* 0001-01-01T00:00:00Z in days, seconds of the day and nanoseconds (split *)
(* so that every number fits TLC's integers); the zero Time is instant 0.  *)
(***************************************************************************)
ZeroTime == [day |-> 0, sec |-> 0, nsec |-> 0]

\* Time.IsZero: the instant is January 1, year 1, 00:00:00 UTC
IsZero(t) == t.day = 0 /\ t.sec = 0 /\ t.nsec = 0

Digits == "0123456789"

IsDigit(c) == \E i \in 1..10 : Ch(Digits, i) = c

DigitVal(c) == (CHOOSE i \in 1..10 : Ch(Digits, i) = c) - 1

AllDigits(s, i, j) == \A k \in i..j : IsDigit(Ch(s, k))

RECURSIVE Num(_, _, _)
Num(s, i, j) == IF j < i THEN 0 ELSE 10 * Num(s, i, j - 1) + DigitVal(Ch(s, j))

IsLeap(y) == y % 4 = 0 /\ (y % 100 # 0 \/ y % 400 = 0)

DaysIn(m, y) ==
    IF m = 2 THEN (IF IsLeap(y) THEN 29 ELSE 28)
    ELSE IF m \in {4, 6, 9, 11} THEN 30 ELSE 31

RECURSIVE DaysBefore(_, _)
DaysBefore(m, y) == IF m <= 1 THEN 0 ELSE DaysBefore(m - 1, y) + DaysIn(m - 1, y)

\* days from 0001-01-01 to the given date of the proleptic Gregorian calendar
DaysSinceZero(y, m, d) ==
    365 * (y - 1) + ((y - 1) \div 4) - ((y - 1) \div 100) + ((y - 1) \div 400)
        + DaysBefore(m, y) + (d - 1)

RECURSIVE Pow10(_)
Pow10(n) == IF n <= 0 THEN 1 ELSE 10 * Pow10(n - 1)

\* the length of the run of digits of s that starts at position i
RECURSIVE DigitRun(_, _)
DigitRun(s, i) == IF i <= Len(s) /\ IsDigit(Ch(s, i)) THEN 1 + DigitRun(s, i + 1) ELSE 0

\* time.Parse(time.RFC3339, value): "2006-01-02T15:04:05Z07:00", with the
\* fractional second time.Parse accepts after the seconds field.
ParseRFC3339(value) ==
    LET bad == [ok |-> FALSE, t |-> ZeroTime]
        shape ==
            /\ Len(value) >= 20
            /\ AllDigits(value, 1, 4) /\ Ch(value, 5) = "-"
            /\ AllDigits(value, 6, 7) /\ Ch(value, 8) = "-"
            /\ AllDigits(value, 9, 10) /\ Ch(value, 11) = "T"
            /\ AllDigits(value, 12, 13) /\ Ch(value, 14) = ":"
            /\ AllDigits(value, 15, 16) /\ Ch(value, 17) = ":"
            /\ AllDigits(value, 18, 19)
        y == Num(value, 1, 4)
        mo == Num(value, 6, 7)
        d == Num(value, 9, 10)
        h == Num(value, 12, 13)
        mi == Num(value, 15, 16)
        s == Num(value, 18, 19)
        hasFrac == Ch(value, 20) \in {".", ","} /\ DigitRun(value, 21) > 0
        nfrac == IF hasFrac THEN DigitRun(value, 21) ELSE 0
        kept == IF nfrac > 9 THEN 9 ELSE nfrac
        nsec == IF hasFrac THEN Num(value, 21, 20 + kept) * Pow10(9 - kept) ELSE 0
        z == IF hasFrac THEN 21 + nfrac ELSE 20
        zone == SubSeq(value, z, Len(value))
        zoneUTC == zone = "Z"
        zoneNum ==
            /\ Len(zone) = 6
            /\ Ch(zone, 1) \in {"+", "-"}
            /\ AllDigits(zone, 2, 3) /\ Ch(zone, 4) = ":" /\ AllDigits(zone, 5, 6)
            /\ Num(zone, 2, 3) <= 24 /\ Num(zone, 5, 6) <= 60
        off == IF zoneUTC THEN 0
               ELSE (IF Ch(zone, 1) = "-" THEN -1 ELSE 1)
                        * (Num(zone, 2, 3) * 3600 + Num(zone, 5, 6) * 60)
    IN  IF ~shape THEN bad
        ELSE IF ~(mo \in 1..12 /\ d \in 1..DaysIn(mo, y)) THEN bad
        ELSE IF ~(h < 24 /\ mi < 60 /\ s < 60) THEN bad
        ELSE IF ~(zoneUTC \/ zoneNum) THEN bad
        ELSE LET local == h * 3600 + mi * 60 + s - off
             IN  [ok |-> TRUE,
                  t |-> [day |-> DaysSinceZero(y, mo, d) + (local \div 86400),
                         sec |-> local % 86400,
                         nsec |-> nsec]]

(***************************************************************************)
(* Values of package security.                                             *)
(***************************************************************************)
\* the nil *TXT and the nil error
Nil == [kind |-> "nil"]

commentPrefix == "#"

prefixed(s) == s \o ":"

policyPrefix == prefixed("Policy")
hiringPrefix == prefixed("Hiring")
contactPrefix == prefixed("Contact")
expiresPrefix == prefixed("Expires")
canonicalPrefix == prefixed("Canonical")
encryptionPrefix == prefixed("Encryption")
acknowledgmentsPrefix == prefixed("Acknowledgments")
preferredLanguagesPrefix == prefixed("Preferred-Languages")

ErrExpiresMustBePresentOnlyOnce == [kind |-> "ErrExpiresMustBePresentOnlyOnce"]
ErrPreferredLanguagesMustBePresentOnlyOnce ==
    [kind |-> "ErrPreferredLanguagesMustBePresentOnlyOnce"]
ErrContactMustBePresent == [kind |-> "ErrContactMustBePresent"]
ErrExpiresMustBePresent == [kind |-> "ErrExpiresMustBePresent"]
ErrExpiresNotAValidRFC3339Date == [kind |-> "ErrExpiresNotAValidRFC3339Date"]

UnknownSymbolError(line) == [kind |-> "UnknownSymbolError", Line |-> line]

statusCodeError(code, url) == [kind |-> "statusCodeError", statusCode |-> code, url |-> url]

\* fmt.Errorf("error while reading file: %w", scanner.Err())
ReadFileError == [kind |-> "error while reading file"]

\* the zero TXT that Parse starts from
ZeroTXT ==
    [Acknowledgments |-> << >>, Canonical |-> << >>, Contact |-> << >>,
     Encryption |-> "", Hiring |-> "", Policy |-> "",
     PreferredLanguages |-> << >>, Expires |-> ZeroTime]

(***************************************************************************)
(* Parser.Parse: the body of the scanner loop and the checks after it.     *)
(* A step of the loop gives the TXT built so far and the error the step    *)
(* returns with (Nil: the loop continues).                                 *)
(***************************************************************************)
Continue(t) == [txt |-> t, err |-> Nil]

Return(e) == [txt |-> Nil, err |-> e]

\* value := strings.Trim(strings.TrimPrefix(line, prefix), " ")
FieldValue(line, prefix) == Trim(TrimPrefix(line, prefix), " ")

\* a multi-valued field that keeps the first value only
AppendValueOnce(values, value) == IF values = << >> THEN <<value>> ELSE values

\* append(txt.Field, value)
AppendValue(values, value) == Append(values, value)

\* a single-valued field that keeps its first value
SetValueOnce(old, value) == IF old = "" THEN value ELSE old

\* txt.Field = value
SetValue(old, value) == value

ExpiresLine(txt, line) ==
    IF ~IsZero(txt.Expires)
    THEN Return(ErrExpiresMustBePresentOnlyOnce)
    ELSE LET expires == ParseRFC3339(FieldValue(line, expiresPrefix))
         IN  IF ~expires.ok
             THEN Return(ErrExpiresNotAValidRFC3339Date)
             ELSE Continue([txt EXCEPT !.Expires = expires.t])

\* for _, value := range values { append(..., strings.Trim(value, " ")) }
RECURSIVE TrimEach(_)
TrimEach(values) ==
    IF values = << >> THEN << >>
    ELSE <<Trim(Head(values), " ")>> \o TrimEach(Tail(values))

\* the languages of a line, with empty pieces dropped
LanguagesOfNonEmpty(line) ==
    TrimEach(SplitNonEmpty(FieldValue(line, preferredLanguagesPrefix), ","))

\* the languages of a line, the pieces left as they were split
LanguagesOfUntrimmed(line) == Split(FieldValue(line, preferredLanguagesPrefix), ",")

\* values := strings.Split(value, ","), each appended trimmed
LanguagesOf(line) == TrimEach(Split(FieldValue(line, preferredLanguagesPrefix), ","))

PreferredLanguagesLine(txt, line) ==
    IF Len(txt.PreferredLanguages) # 0
    THEN Return(ErrPreferredLanguagesMustBePresentOnlyOnce)
    ELSE Continue([txt EXCEPT !.PreferredLanguages = @ \o LanguagesOf(line)])

\* the last statement of the loop body, with the untrimmed line as payload
UnknownLineRaw(raw, line) == Return(UnknownSymbolError(raw))

\* return nil, &UnknownSymbolError{Line: line}
UnknownLine(raw, line) == Return(UnknownSymbolError(line))

\* one iteration of `for scanner.Scan()` on the token raw
LoopBody(txt, raw) ==
    LET line == TrimSpace(raw)
    IN  IF HasPrefix(line, commentPrefix) \/ line = ""
        THEN Continue(txt)
        ELSE IF HasPrefix(line, acknowledgmentsPrefix)
        THEN Continue([txt EXCEPT !.Acknowledgments =
                        AppendValue(@, FieldValue(line, acknowledgmentsPrefix))])
        ELSE IF HasPrefix(line, canonicalPrefix)
        THEN Continue([txt EXCEPT !.Canonical =
                        AppendValue(@, FieldValue(line, canonicalPrefix))])
        ELSE IF HasPrefix(line, contactPrefix)
        THEN Continue([txt EXCEPT !.Contact =
                        AppendValue(@, FieldValue(line, contactPrefix))])
        ELSE IF HasPrefix(line, encryptionPrefix)
        THEN Continue([txt EXCEPT !.Encryption = SetValue(@, FieldValue(line, encryptionPrefix))])
        ELSE IF HasPrefix(line, hiringPrefix)
        THEN Continue([txt EXCEPT !.Hiring = SetValue(@, FieldValue(line, hiringPrefix))])
        ELSE IF HasPrefix(line, expiresPrefix)
        THEN ExpiresLine(txt, line)
        ELSE IF HasPrefix(line, policyPrefix)
        THEN Continue([txt EXCEPT !.Policy = SetValue(@, FieldValue(line, policyPrefix))])
        ELSE IF HasPrefix(line, preferredLanguagesPrefix)
        THEN PreferredLanguagesLine(txt, line)
        ELSE UnknownLine(raw, line)

\* the checks after the loop, without the check of Contact
AfterLoopNoContactCheck(txt, scanErr) ==
    IF IsZero(txt.Expires) THEN Return(ErrExpiresMustBePresent)
    ELSE IF scanErr THEN Return(ReadFileError)
    ELSE [txt |-> txt, err |-> Nil]

\* the checks after the loop, returning the TXT built so far with the error
AfterLoopPartial(txt, scanErr) ==
    IF Len(txt.Contact) = 0 THEN [txt |-> txt, err |-> ErrContactMustBePresent]
    ELSE IF IsZero(txt.Expires) THEN [txt |-> txt, err |-> ErrExpiresMustBePresent]
    ELSE IF scanErr THEN [txt |-> txt, err |-> ReadFileError]
    ELSE [txt |-> txt, err |-> Nil]

\* the checks after the loop, Expires before Contact
AfterLoopExpiresFirst(txt, scanErr) ==
    IF IsZero(txt.Expires) THEN Return(ErrExpiresMustBePresent)
    ELSE IF Len(txt.Contact) = 0 THEN Return(ErrContactMustBePresent)
    ELSE IF scanErr THEN Return(ReadFileError)
    ELSE [txt |-> txt, err |-> Nil]

\* the statements after the loop; scanErr: scanner.Err() != nil
AfterLoop(txt, scanErr) ==
    IF Len(txt.Contact) = 0 THEN Return(ErrContactMustBePresent)
    ELSE IF IsZero(txt.Expires) THEN Return(ErrExpiresMustBePresent)
    ELSE IF scanErr THEN Return(ReadFileError)
    ELSE [txt |-> txt, err |-> Nil]

\* the loop on the tokens tokens[i..], from the TXT txt
RECURSIVE ScanLoop(_, _, _, _)
ScanLoop(txt, tokens, i, scanErr) ==
    IF i > Len(tokens)
    THEN AfterLoop(txt, scanErr)
    ELSE LET step == LoopBody(txt, tokens[i])
         IN  IF step.err # Nil THEN step ELSE ScanLoop(step.txt, tokens, i + 1, scanErr)

\* Parse(in) on a stream that delivers the tokens in.tokens and then ends,
\* with a read error when in.readErr
Parse(in) == ScanLoop(ZeroTXT, in.tokens, 1, in.readErr)

(***************************************************************************)
(* package net/url, as ParseFromURL uses it: url.Parse and URL.String on   *)
(* locations without user information or escapes.                          *)
(***************************************************************************)
Letters == "abcdefghijklmnopqrstuvwxyzABCDEFGHIJKLMNOPQRSTUVWXYZ"

IsLetter(c) == \E i \in 1..Len(Letters) : Ch(Letters, i) = c

\* the bytes url.Parse rejects as control characters
IsCTL(c) == c \in {"\t", "\n", "\r"}

\* getScheme: [ok, scheme, rest]
RECURSIVE GetScheme(_, _)
GetScheme(raw, i) ==
    IF i > Len(raw) THEN [ok |-> TRUE, scheme |-> "", rest |-> raw]
    ELSE LET c == Ch(raw, i)
         IN  IF IsLetter(c) THEN GetScheme(raw, i + 1)
             ELSE IF IsDigit(c) \/ c \in {"+", "-", "."}
             THEN IF i = 1
                  THEN [ok |-> TRUE, scheme |-> "", rest |-> raw]
                  ELSE GetScheme(raw, i + 1)
             ELSE IF c = ":"
             THEN IF i = 1
                  THEN [ok |-> FALSE, scheme |-> "", rest |-> raw]
                  ELSE [ok |-> TRUE, scheme |-> SubSeq(raw, 1, i - 1),
                        rest |-> SubSeq(raw, i + 1, Len(raw))]
             ELSE [ok |-> TRUE, scheme |-> "", rest |-> raw]

\* url.Parse(rawURL): [ok, Scheme, Opaque, Host, Path, ForceQuery, RawQuery, Fragment]
URLParse(rawURL) ==
    LET h == Index(rawURL, "#")
        u == IF h = 0 THEN rawURL ELSE SubSeq(rawURL, 1, h - 1)
        frag == IF h = 0 THEN "" ELSE SubSeq(rawURL, h + 1, Len(rawURL))
        sc == GetScheme(u, 1)
        q == Index(sc.rest, "?")
        force == q # 0 /\ q = Len(sc.rest)
        rest == IF q = 0 THEN sc.rest ELSE SubSeq(sc.rest, 1, q - 1)
        query == IF q = 0 THEN "" ELSE SubSeq(sc.rest, q + 1, Len(sc.rest))
        opaque == ~HasPrefix(rest, "/") /\ sc.scheme # ""
        auth == HasPrefix(rest, "//") /\ (sc.scheme # "" \/ ~HasPrefix(rest, "///"))
        after == IF auth THEN SubSeq(rest, 3, Len(rest)) ELSE rest
        sl == Index(after, "/")
        host == IF ~auth THEN ""
                ELSE IF sl = 0 THEN after ELSE SubSeq(after, 1, sl - 1)
        path == IF ~auth THEN rest
                ELSE IF sl = 0 THEN "" ELSE SubSeq(after, sl, Len(after))
        bad == [ok |-> FALSE, Scheme |-> "", Opaque |-> "", Host |-> "", Path |-> "",
                ForceQuery |-> FALSE, RawQuery |-> "", Fragment |-> ""]
    IN  IF \E i \in 1..Len(rawURL) : IsCTL(Ch(rawURL, i)) THEN bad
        ELSE IF ~sc.ok THEN bad
        ELSE IF \E i \in 1..Len(host) : Ch(host, i) = " " THEN bad
        ELSE IF opaque
        THEN [ok |-> TRUE, Scheme |-> sc.scheme, Opaque |-> rest, Host |-> "", Path |-> "",
              ForceQuery |-> force, RawQuery |-> query, Fragment |-> frag]
        ELSE [ok |-> TRUE, Scheme |-> sc.scheme, Opaque |-> "", Host |-> host, Path |-> path,
              ForceQuery |-> force, RawQuery |-> query, Fragment |-> frag]

\* URL.String()
URLString(u) ==
    LET scheme == IF u.Scheme # "" THEN u.Scheme \o ":" ELSE ""
        slashes == IF (u.Scheme # "" \/ u.Host # "") /\ (u.Host # "" \/ u.Path # "")
                   THEN "//" ELSE ""
        sep == IF u.Path # "" /\ Ch(u.Path, 1) # "/" /\ u.Host # "" THEN "/" ELSE ""
        hier == IF u.Opaque # "" THEN u.Opaque ELSE slashes \o u.Host \o sep \o u.Path
        query == IF u.ForceQuery \/ u.RawQuery # "" THEN "?" \o u.RawQuery ELSE ""
        frag == IF u.Fragment # "" THEN "#" \o u.Fragment ELSE ""
    IN  scheme \o hier \o query \o frag

(***************************************************************************)
(* Parser construction.  A *slog.Logger or *http.Client is "set" or "nil". *)
(***************************************************************************)
NewParserWithOptions(opts) ==
    [logger |-> IF opts.Logger # "nil" THEN opts.Logger ELSE "nil",
     httpClient |-> IF opts.HTTPClient # "nil" THEN opts.HTTPClient ELSE "nil"]

NewParser == NewParserWithOptions([Logger |-> "set", HTTPClient |-> "set"])

\* ParserOptions{Logger: slog.Default()}: HTTPClient keeps its zero value
defaultParser == NewParserWithOptions([Logger |-> "set", HTTPClient |-> "nil"])

Parsers ==
    {defaultParser, NewParser}
        \cup {NewParserWithOptions([Logger |-> l, HTTPClient |-> c]) :
                l \in {"nil", "set"}, c \in {"nil", "set"}}

(***************************************************************************)
(* Parser.ParseFromURL and Parser.parseFromURL.                            *)
(***************************************************************************)
\* fmt.Errorf("unable to parse provided URL [%s]: %w", rawURL, err)
URLParseError(rawURL) == [kind |-> "unable to parse provided URL", url |-> rawURL]

\* the error of httpClient.Get, a *url.Error of the request
TransportError(url) == [kind |-> "transportError", url |-> url]

\* *multierror.Error
MultiError(errs) == [kind |-> "multierror", Errors |-> errs]

\* multierror.Append(multiErr, err), multiErr the list gathered so far
MultiAppend(errs, err) == Append(errs, err)

\* (*multierror.Error).ErrorOrNil
ErrorOrNil(errs) == IF Len(errs) = 0 THEN Nil ELSE MultiError(errs)

\* the known paths, .well-known first
knownPathsSwapped == <<".well-known/security.txt", "security.txt">>

\* []string{"security.txt", ".well-known/security.txt"}
knownPaths == <<"security.txt", ".well-known/security.txt">>

\* url.Path == "/" || url.Path == ""
HasEmptyPath(u) == u.Path = "/" \/ u.Path = ""

\* newURL := strings.TrimSuffix(url.String(), "/") + "/" + path
CandidateURL(u, path) == TrimSuffix(URLString(u), "/") \o "/" \o path

\* parseFromURL(url) when httpClient.Get(url) gives r: a transport error, or
\* a response with a status code and a body
parseFromURL(url, r) ==
    IF r.kind = "transportError" THEN Return(TransportError(url))
    ELSE IF r.StatusCode > 299 THEN Return(statusCodeError(r.StatusCode, url))
    ELSE Parse(r.Body)

(***************************************************************************)
(* Inputs.  A line of a stream is built from its parts, so that the parts  *)
(* are known apart from what Parse computes: raw is the text the scanner   *)
(* delivers, field the kind of line, val the value (or the text of a line  *)
(* that is no field line) and pieces the languages of a                    *)
(* Preferred-Languages line.                                               *)
(***************************************************************************)
FieldLine(field, lead, pad1, val, pad2, trail) ==
    [field |-> field, raw |-> lead \o field \o ":" \o pad1 \o val \o pad2 \o trail,
     val |-> val, pieces |-> << >>]

OtherLine(kind, lead, text, trail) ==
    [field |-> kind, raw |-> lead \o text \o trail, val |-> text, pieces |-> << >>]

RECURSIVE JoinItems(_)
JoinItems(items) ==
    IF Len(items) = 0 THEN ""
    ELSE LET h == Head(items)
             one == h.l \o h.p \o h.r
         IN  IF Len(items) = 1 THEN one ELSE one \o "," \o JoinItems(Tail(items))

LangLine(lead, pad1, items, pad2) ==
    [field |-> "Preferred-Languages",
     raw |-> lead \o "Preferred-Languages:" \o pad1 \o JoinItems(items) \o pad2,
     val |-> JoinItems(items),
     pieces |-> [i \in 1..Len(items) |-> items[i].p]]

Item(l, p, r) == [l |-> l, p |-> p, r |-> r]

\* lines of the single-valued fields, two of each with different values and
\* different padding, and the lines a complete document needs
OverwriteLines ==
    { FieldLine("Encryption", "", " ", "https://example.com/key1.txt", "", ""),
      FieldLine("Encryption", " ", "  ", "https://example.com/key2.txt", " ", "\r"),
      FieldLine("Hiring", "", " ", "https://example.com/jobs", "", ""),
      FieldLine("Hiring", "", "", "https://example.com/careers", "  ", ""),
      FieldLine("Policy", "", " ", "https://example.com/policy", "", ""),
      FieldLine("Policy", "\t", " ", "https://example.com/disclosure", "", " "),
      FieldLine("Contact", "", " ", "mailto:security@example.com", "", ""),
      FieldLine("Expires", "", " ", "2021-12-31T23:59:59Z", "", "") }

ValidExpires == {"2021-12-31T23:59:59Z", "2030-01-01T00:00:00+02:00"}

ZeroExpires == "0001-01-01T00:00:00Z"

Lines ==
    { OtherLine("blank", " \t", "", ""),
      OtherLine("comment", " ", "# Contact: see below", ""),
      OtherLine("unknown", "  ", "SHOULD FAIL HERE.", " \r"),
      OtherLine("unknown", "", "Contact : mailto:a", ""),
      FieldLine("Acknowledgments", "", " ", "https://example.com/", "", ""),
      \* a tab after the prefix is no space: Trim(value, " ") keeps it
      FieldLine("Acknowledgments", "", " ", "\thttps://example.com/hall", "  ", ""),
      FieldLine("Canonical", "", " ", "https://example.com/security.txt", "", ""),
      FieldLine("Canonical", " ", "  ", "https://b.example.com/security.txt", "", "\r"),
      FieldLine("Contact", "", " ", "mailto:security@example.com", "", ""),
      FieldLine("Contact", "\t", "", "https://example.com/vulnz", " ", "\t"),
      FieldLine("Encryption", "", " ", "https://example.com/publickey.txt", "", ""),
      FieldLine("Hiring", "", " ", "https://example.com/hiring", "", ""),
      FieldLine("Policy", "", " ", "https://example.com/policy", "", ""),
      FieldLine("Expires", "", " ", "2021-12-31T23:59:59Z", "", ""),
      FieldLine("Expires", "", "", "2030-01-01T00:00:00+02:00", " ", ""),
      FieldLine("Expires", "", " ", ZeroExpires, "", ""),
      FieldLine("Expires", "", " ", "not-a-date", "", ""),
      LangLine("", " ", <<Item("", "en", ""), Item(" ", "es", " "), Item(" ", "fr", "")>>, ""),
      LangLine("", "", <<Item("", "", "")>>, ""),
      LangLine("", " ", <<Item("", "de", ""), Item("", "", ""), Item("", "fr", " ")>>, " ") }

\* the bodies a server answers with: the tokens of the stream, whether the
\* stream ends in a read error, and the Contact of a body that parses
Body(tokens, readErr, contact) == [tokens |-> tokens, readErr |-> readErr, contact |-> contact]

GoodBody(contact) ==
    Body(<<"# security.txt", "Contact: " \o contact, "Expires: 2021-12-31T23:59:59Z">>,
         FALSE, contact)

Bodies ==
    { GoodBody("mailto:a@example.com"),
      GoodBody("mailto:b@example.com"),
      Body(<<"<!DOCTYPE html>">>, FALSE, ""),
      Body(<< >>, FALSE, ""),
      Body(<<"Contact: mailto:c@example.com", "Expires: 2021-12-31T23:59:59Z">>, TRUE, "") }

Response(code, body) == [kind |-> "response", StatusCode |-> code, Body |-> body]

\* what httpClient.Get gives for one request
Responses ==
    { [kind |-> "transportError"] }
        \cup { Response(200, b) : b \in Bodies }
        \cup { Response(404, Body(<< >>, FALSE, "")),
               Response(300, GoodBody("mailto:a@example.com")),
               Response(101, Body(<< >>, FALSE, "")) }

\* the locations ParseFromURL is called with: those whose path is empty or
\* "/", those with another path, and a malformed one
EmptyPathURLs == {"http://h", "http://h/", "http://h/?q=1", "http://h#f"}

OtherPathURLs == {"http://h/a"}

MalformedURLs == {"://h"}

BaseURLs == EmptyPathURLs \cup OtherPathURLs \cup MalformedURLs

NoURL == ""

(***************************************************************************)
(* The state: one call of Parse or of ParseFromURL.                        *)
(***************************************************************************)
VARIABLES
    call,       \* "Parse" or "ParseFromURL"
    pc,         \* "scan", "call", "retry", "done" or "panic"
    parser,     \* the Parser the call is made on
    txt,        \* Parse: the TXT built so far
    scanErr,    \* Parse: scanner.Err() != nil
    consumed,   \* Parse: the lines the scanner has delivered
    scanDone,   \* Parse: scanner.Scan() has returned false
    rawURL,     \* ParseFromURL: its argument
    attempts,   \* ParseFromURL: the calls of parseFromURL made: url, response, result
    multiErr,   \* ParseFromURL: the errors gathered
    ret         \* the (*TXT, error) returned

vars == <<call, pc, parser, txt, scanErr, consumed, scanDone, rawURL, attempts, multiErr, ret>>

parseVars == <<txt, scanErr, consumed, scanDone>>

urlVars == <<rawURL, attempts, multiErr>>

InitParse ==
    /\ call = "Parse"
    /\ pc = "scan"
    /\ parser = defaultParser
    /\ rawURL = NoURL

InitParseFromURL ==
    /\ call = "ParseFromURL"
    /\ pc = "call"
    /\ parser \in Parsers
    /\ rawURL \in BaseURLs

Init ==
    /\ InitParse \/ InitParseFromURL
    /\ txt = ZeroTXT
    /\ scanErr = FALSE
    /\ consumed = << >>
    /\ scanDone = FALSE
    /\ attempts = << >>
    /\ multiErr = << >>
    /\ ret = [txt |-> Nil, err |-> Nil]

(***************************************************************************)
(* Parse, one call of scanner.Scan() at a time.                            *)
(***************************************************************************)
\* one turn of the loop on the line l that Scan() delivered; no read has failed
ScanStep(l) ==
    /\ call = "Parse" /\ pc = "scan"
    /\ consumed' = Append(consumed, l)
    /\ LET step == LoopBody(txt, l.raw)
       IN  IF step.err # Nil
           THEN pc' = "done" /\ ret' = step /\ txt' = txt
           ELSE pc' = pc /\ ret' = ret /\ txt' = step.txt
    /\ UNCHANGED <<call, parser, scanErr, scanDone, urlVars>>

\* Scan() delivers the line l of a stream of at most MaxLines lines
ScanLine(l) == Len(consumed) < MaxLines /\ ScanStep(l)

\* Scan() delivers the line l of a stream that repeats the single-valued fields
ScanOverwriteLine(l) == Len(consumed) < MaxOverwriteLines /\ ScanStep(l)

\* a read fails with data buffered: Scan() delivers the rest of the buffer
\* as the last token l, and returns false at its next call
ScanLastToken(l) ==
    /\ call = "Parse" /\ pc = "scan"
    /\ Len(consumed) < MaxLines
    /\ consumed' = Append(consumed, l)
    /\ scanErr' = TRUE
    /\ pc' = "done"
    /\ LET step == LoopBody(txt, l.raw)
       IN  IF step.err # Nil
           THEN ret' = step /\ txt' = txt /\ scanDone' = FALSE
           ELSE ret' = AfterLoop(step.txt, TRUE) /\ txt' = step.txt /\ scanDone' = TRUE
    /\ UNCHANGED <<call, parser, urlVars>>

\* Scan() returns false: the stream has ended, or a read has failed (failed)
ScanEnd(failed) ==
    /\ call = "Parse" /\ pc = "scan"
    /\ scanErr' = failed
    /\ scanDone' = TRUE
    /\ pc' = "done"
    /\ ret' = AfterLoop(txt, failed)
    /\ UNCHANGED <<call, parser, txt, consumed, urlVars>>

(***************************************************************************)
(* ParseFromURL, one call of parseFromURL at a time; r is what the fetch   *)
(* gives.  A method called on a nil logger or a nil client panics.         *)
(***************************************************************************)
Attempt(url, r) == [url |-> url, resp |-> r, out |-> parseFromURL(url, r)]

\* from the call to the end of the attempt at rawURL
ParseFromURLBase(r) ==
    /\ call = "ParseFromURL" /\ pc = "call"
    /\ LET u == URLParse(rawURL)
           a == Attempt(rawURL, r)
           errs == MultiAppend(multiErr, a.out.err)
       IN  IF ~u.ok
           THEN /\ pc' = "done"
                /\ ret' = Return(URLParseError(rawURL))
                /\ UNCHANGED <<attempts, multiErr>>
           ELSE IF parser.httpClient = "nil"
           THEN pc' = "panic" /\ UNCHANGED <<attempts, multiErr, ret>>
           ELSE /\ attempts' = Append(attempts, a)
                /\ IF a.out.err = Nil
                   THEN pc' = "done" /\ ret' = a.out /\ multiErr' = multiErr
                   ELSE /\ multiErr' = errs
                        /\ IF parser.logger = "nil"
                           THEN pc' = "panic" /\ ret' = ret
                           ELSE IF HasEmptyPath(u)
                           THEN pc' = "retry" /\ ret' = ret
                           ELSE pc' = "done" /\ ret' = Return(ErrorOrNil(errs))
    /\ UNCHANGED <<call, parser, rawURL, parseVars>>

\* one iteration of the loop over the known paths
ParseFromURLRetry(r) ==
    /\ call = "ParseFromURL" /\ pc = "retry"
    /\ LET i == Len(attempts)
           a == Attempt(CandidateURL(URLParse(rawURL), knownPaths[i]), r)
           errs == MultiAppend(multiErr, a.out.err)
       IN  /\ attempts' = Append(attempts, a)
           /\ IF a.out.err = Nil
              THEN pc' = "done" /\ ret' = a.out /\ multiErr' = multiErr
              ELSE /\ multiErr' = errs
                   /\ IF i < Len(knownPaths)
                      THEN pc' = "retry" /\ ret' = ret
                      ELSE pc' = "done" /\ ret' = Return(ErrorOrNil(errs))
    /\ UNCHANGED <<call, parser, rawURL, parseVars>>

Next ==
    \/ \E l \in Lines : ScanLine(l)
    \/ \E l \in Lines : ScanLastToken(l)
    \/ \E failed \in BOOLEAN : ScanEnd(failed)
    \/ \E r \in Responses : ParseFromURLBase(r)
    \/ \E r \in Responses : ParseFromURLRetry(r)

Spec == Init /\ [][Next]_vars

\* Parse on streams that repeat Encryption, Hiring and Policy
InitOverwrite == Init /\ InitParse

NextOverwrite ==
    \/ \E l \in OverwriteLines : ScanOverwriteLine(l)
    \/ \E failed \in BOOLEAN : ScanEnd(failed)

SpecOverwrite == InitOverwrite /\ [][NextOverwrite]_vars

(***************************************************************************)
(* What the input was, read off the parts the lines were built from.       *)
(***************************************************************************)
LinesOf(field) == SelectSeq(consumed, LAMBDA l : l.field = field)

ValuesOf(field) == [i \in 1..Len(LinesOf(field)) |-> LinesOf(field)[i].val]

LastConsumed == consumed[Len(consumed)]

\* the value of the last line of the field, "" when it has no line
LastValueOf(field) ==
    IF LinesOf(field) = << >> THEN "" ELSE LinesOf(field)[Len(LinesOf(field))].val

Returned == pc = "done"

ParseReturned == call = "Parse" /\ pc = "done"

ParseSucceeded == ParseReturned /\ ret.err = Nil

\* a response whose status is 200 and whose body is a complete document
Succeeds(r) == r.kind = "response" /\ r.StatusCode = 200 /\ r.Body.contact # ""

LastAttempt == attempts[Len(attempts)]

(***************************************************************************)
(* C1: whenever Parse returns a Document (no error), the Document's        *)
(* Contact sequence is non-empty and its Expires is not the zero time.     *)
(***************************************************************************)
C1_ContactAndExpiresSet ==
    (Returned /\ ret.err = Nil) =>
        /\ ret.txt # Nil
        /\ Len(ret.txt.Contact) > 0
        /\ ~IsZero(ret.txt.Expires)

\* Parse has returned a Document for a stream that began with a zero Expires
C1_Witness ==
    /\ ParseSucceeded
    /\ Len(consumed) = 3
    /\ consumed[1].field = "Expires" /\ consumed[1].val = ZeroExpires

(***************************************************************************)
(* C2: a call of Parse or of ParseFromURL that returns, returns exactly    *)
(* one of a Document and a non-nil error: no Document beside an error, and *)
(* no nil error beside a missing Document (the aggregated error of         *)
(* ParseFromURL is never empty).                                           *)
(***************************************************************************)
C2_DocumentXorError ==
    Returned =>
        /\ (ret.txt = Nil) # (ret.err = Nil)
        /\ ret.err.kind = "multierror" => Len(ret.err.Errors) > 0

\* ParseFromURL has returned the aggregated error of three failed attempts
C2_Witness ==
    /\ call = "ParseFromURL" /\ Returned
    /\ ret.txt = Nil
    /\ ret.err.kind = "multierror" /\ Len(ret.err.Errors) = 3

(***************************************************************************)
(* C3: an input in which an Expires line appears twice makes Parse fail    *)
(* with ErrExpiresMustBePresentOnlyOnce, regardless of the two values.     *)
(* Stated for the inputs in which every Expires line carries a well-formed *)
(* RFC 3339 timestamp and no earlier line fails: once the second Expires   *)
(* line is delivered, Parse has returned the duplicate-Expires error.      *)
(***************************************************************************)
C3_DuplicateExpiresFails ==
    ( /\ call = "Parse"
      /\ Len(LinesOf("Expires")) >= 2
      /\ \A i \in 1..Len(LinesOf("Expires")) :
            LinesOf("Expires")[i].val \in ValidExpires \cup {ZeroExpires} )
    => (pc = "done" /\ ret = Return(ErrExpiresMustBePresentOnlyOnce))

(***************************************************************************)
(* C4: when a second Preferred-Languages line is delivered and no earlier  *)
(* line failed, Parse returns ErrPreferredLanguagesMustBePresentOnlyOnce   *)
(* at that line, for every pair of values, identical and empty ones too.   *)
(***************************************************************************)
C4_DuplicatePreferredLanguagesFails ==
    (call = "Parse" /\ Len(LinesOf("Preferred-Languages")) >= 2) =>
        /\ Len(LinesOf("Preferred-Languages")) = 2
        /\ LastConsumed.field = "Preferred-Languages"
        /\ pc = "done"
        /\ ret = Return(ErrPreferredLanguagesMustBePresentOnlyOnce)

\* two Preferred-Languages lines with the same, empty value were delivered
C4_Witness ==
    /\ call = "Parse"
    /\ Len(LinesOf("Preferred-Languages")) = 2
    /\ LinesOf("Preferred-Languages")[1].val = ""
    /\ LinesOf("Preferred-Languages")[2].val = ""
    /\ ret.err = ErrPreferredLanguagesMustBePresentOnlyOnce

(***************************************************************************)
(* C5: when no line raised a structural error (the loop ran to the end of  *)
(* the stream): with no Contact line Parse fails with                      *)
(* ErrContactMustBePresent, also when Expires is missing too; otherwise,   *)
(* with no Expires line, it fails with ErrExpiresMustBePresent.            *)
(***************************************************************************)
C5_CompletenessErrors ==
    (ParseReturned /\ scanDone) =>
        /\ Len(LinesOf("Contact")) = 0 => ret = Return(ErrContactMustBePresent)
        /\ (Len(LinesOf("Contact")) > 0 /\ Len(LinesOf("Expires")) = 0)
                => ret = Return(ErrExpiresMustBePresent)

\* a stream with lines, but neither a Contact nor an Expires line, has ended
C5_Witness ==
    /\ ParseReturned /\ scanDone
    /\ Len(consumed) > 0
    /\ Len(LinesOf("Contact")) = 0 /\ Len(LinesOf("Expires")) = 0
    /\ ret.err = ErrContactMustBePresent

(***************************************************************************)
(* C6: when the line delivered (all lines before it having been blank,     *)
(* comments or accepted fields) matches no known field prefix, Parse       *)
(* returns at once an UnknownSymbolError whose Line is the text of that    *)
(* line without its surrounding white space, whether or not Contact and    *)
(* Expires were present.                                                   *)
(***************************************************************************)
C6_UnknownLineFails ==
    (call = "Parse" /\ Len(consumed) > 0 /\ LastConsumed.field = "unknown") =>
        /\ pc = "done"
        /\ ~scanDone
        /\ ret = Return(UnknownSymbolError(LastConsumed.val))

\* an unknown line with white space around it came after Contact and Expires
C6_Witness ==
    /\ call = "Parse" /\ Len(consumed) = 3
    /\ consumed[1].field = "Contact" /\ consumed[2].field = "Expires"
    /\ LastConsumed.field = "unknown" /\ LastConsumed.raw # LastConsumed.val
    /\ ret.err = UnknownSymbolError(LastConsumed.val)

(***************************************************************************)
(* C7: on every successful Parse, Acknowledgments, Canonical and Contact   *)
(* each hold the values of that field's lines (surrounding spaces          *)
(* trimmed), one per line, in source order, duplicates kept.               *)
(***************************************************************************)
C7_MultiValuedInOrder ==
    ParseSucceeded =>
        /\ ret.txt.Acknowledgments = ValuesOf("Acknowledgments")
        /\ ret.txt.Canonical = ValuesOf("Canonical")
        /\ ret.txt.Contact = ValuesOf("Contact")

\* two Contact lines with different values gave a 2-element Contact
C7_Witness ==
    /\ ParseSucceeded
    /\ Len(LinesOf("Contact")) = 2
    /\ LinesOf("Contact")[1].val # LinesOf("Contact")[2].val
    /\ ret.txt.Contact = <<LinesOf("Contact")[1].val, LinesOf("Contact")[2].val>>

(***************************************************************************)
(* C8: on a successful Parse of an input with one Preferred-Languages      *)
(* line, PreferredLanguages is the sequence of the comma-separated pieces  *)
(* of its value, in order, each without its surrounding spaces, none       *)
(* dropped.                                                                *)
(***************************************************************************)
C8_PreferredLanguagesPieces ==
    (ParseSucceeded /\ Len(LinesOf("Preferred-Languages")) = 1) =>
        ret.txt.PreferredLanguages = LinesOf("Preferred-Languages")[1].pieces

\* `en, es , fr` gave <<"en", "es", "fr">>
C8_Witness ==
    /\ ParseSucceeded
    /\ Len(LinesOf("Preferred-Languages")) = 1
    /\ LinesOf("Preferred-Languages")[1].val = "en, es , fr"
    /\ ret.txt.PreferredLanguages = <<"en", "es", "fr">>

(***************************************************************************)
(* C9: a read error of the stream that occurred while Parse iterated is    *)
(* what Parse returns, as the wrapped I/O error: a failed stream is never  *)
(* reported as a field-validation or completeness error.                   *)
(***************************************************************************)
C9_ReadErrorSurfaces ==
    (ParseReturned /\ scanErr) => ret = Return(ReadFileError)

C11_OtherPathSingleFailure ==
    ( /\ call = "ParseFromURL"
      /\ rawURL \in OtherPathURLs
      /\ Len(attempts) >= 1
      /\ attempts[1].out.err # Nil )
    =>  /\ Len(attempts) = 1
        /\ attempts[1].url = rawURL
        /\ pc = "done"
        /\ ret = Return(MultiError(<<attempts[1].out.err>>))

(***************************************************************************)
(* C12: when the path of the base location is empty or "/" and every       *)
(* candidate answers with a not-found status, ParseFromURL returns an      *)
(* aggregated error holding exactly three failures in attempt order, each  *)
(* a status error with the status code and the location attempted.         *)
(***************************************************************************)
C12_AllNotFoundThreeFailures ==
    ( /\ call = "ParseFromURL"
      /\ rawURL \in EmptyPathURLs
      /\ \A i \in 1..Len(attempts) :
            attempts[i].resp.kind = "response" /\ attempts[i].resp.StatusCode = 404 )
    =>  /\ pc # "panic"
        /\ pc = "done" =>
              /\ Len(attempts) = 3
              /\ ret = Return(MultiError(
                    [i \in 1..3 |-> statusCodeError(404, attempts[i].url)]))

(***************************************************************************)
(* C13: for every base location whose path is empty or "/", whatever its   *)
(* query string or fragment, the two retry candidates that are fetched     *)
(* are the base with "security.txt" and then ".well-known/security.txt"    *)
(* appended to its path, the trailing slash normalized: the locations of   *)
(* the base's scheme and host with the paths "/security.txt" and           *)
(* "/.well-known/security.txt".                                            *)
(***************************************************************************)
C13_CandidatesAppendToPath ==
    (call = "ParseFromURL" /\ rawURL \in EmptyPathURLs) =>
        \A i \in 2..Len(attempts) :
            LET base == URLParse(rawURL)
                candidate == URLParse(attempts[i].url)
            IN  /\ candidate.ok
                /\ candidate.Scheme = base.Scheme
                /\ candidate.Host = base.Host
                /\ candidate.Path = (IF i = 2 THEN "/security.txt"
                                              ELSE "/.well-known/security.txt")

(***************************************************************************)
(* C14: every fetch attempt whose response carries a status code that is   *)
(* not a success status (200..299) fails with a status error carrying      *)
(* that code and the attempted location, and its body is not parsed: the   *)
(* body is parsed only when the status is a success status.                *)
(***************************************************************************)
C14_NonSuccessIsStatusError ==
    call = "ParseFromURL" =>
        \A i \in 1..Len(attempts) :
            LET a == attempts[i]
            IN  (a.resp.kind = "response" /\ a.resp.StatusCode \notin 200..299)
                    => a.out = Return(statusCodeError(a.resp.StatusCode, a.url))

(***************************************************************************)
(* C15: on every successful Parse, Encryption, Hiring and Policy each      *)
(* equal the value (surrounding spaces trimmed) of the last line of that    *)
(* field, and are empty when the field has no line; a line of one of       *)
(* these fields, repeated or not, never makes Parse return an error.       *)
(***************************************************************************)
C15_LastOccurrenceWins ==
    /\ ParseSucceeded =>
          /\ ret.txt.Encryption = LastValueOf("Encryption")
          /\ ret.txt.Hiring = LastValueOf("Hiring")
          /\ ret.txt.Policy = LastValueOf("Policy")
    /\ (ParseReturned /\ ~scanDone) =>
          LastConsumed.field \notin {"Encryption", "Hiring", "Policy"}
    /\ (call = "Parse" /\ pc = "scan" /\ Len(consumed) > 0
            /\ LastConsumed.field \in {"Encryption", "Hiring", "Policy"}) =>
          txt[LastConsumed.field] = LastConsumed.val

\* a Document returned for a stream with two Encryption lines of different
\* values, two Hiring lines or two Policy lines: it holds the second value
C15_Witness ==
    /\ ParseSucceeded
    /\ \E f \in {"Encryption", "Hiring", "Policy"} :
          /\ Len(LinesOf(f)) = 2
          /\ LinesOf(f)[1].val # LinesOf(f)[2].val
          /\ ret.txt[f] = LinesOf(f)[2].val

(***************************************************************************)
(* C16: ParseFromURL, called on the default parser or on any parser built  *)
(* by NewParser or NewParserWithOptions, whatever the options, completes   *)
(* by returning a Document or an error: it never calls a method on a nil   *)
(* fetch client or a nil logger.                                           *)
(***************************************************************************)
C16_NeverUsesNilClientOrLogger ==
    (call = "ParseFromURL" /\ parser \in Parsers) => pc # "panic"

====
